---- MODULE Spec2Model ----
(***************************************************************************)
(* Model of server.py: CORSRequestHandler, a static-file server that also  *)
(* proxies GET /api/quote/<symbol>?period=<p> to a fixed upstream host.    *)
(* Python str values are sequences of one-character strings, so that       *)
(* split, replace, parse_qs and unquote are computed character by          *)
(* character as the interpreter computes them.                             *)
(***************************************************************************)
EXTENDS Integers, Sequences, FiniteSets, TLC

\* ---------------------------------------------------------------- bounds
\* longest upstream response body (in bytes) the model enumerates
MaxBodyLen == 2

\* ------------------------------------------------------- str primitives
\* s.startswith(p)
StartsWith(s, p) ==
    /\ Len(p) <= Len(s)
    /\ SubSeq(s, 1, Len(p)) = p

\* s[n:]
Drop(s, n) == SubSeq(s, n + 1, Len(s))

\* index of the first occurrence of the non-empty sub at or after i, 0 if none
RECURSIVE FindFrom(_, _, _)
FindFrom(s, sub, i) ==
    IF i + Len(sub) - 1 > Len(s) THEN 0
    ELSE IF SubSeq(s, i, i + Len(sub) - 1) = sub THEN i
    ELSE FindFrom(s, sub, i + 1)

\* s.split(sep): every piece between occurrences of sep, at least one piece
RECURSIVE Split(_, _)
Split(s, sep) ==
    LET i == FindFrom(s, sep, 1)
    IN  IF i = 0 THEN <<s>>
        ELSE <<SubSeq(s, 1, i - 1)>> \o Split(Drop(s, i + Len(sep) - 1), sep)

\* s.split(sep, 1): at most one cut, at the first occurrence of sep
Split1(s, sep) ==
    LET i == FindFrom(s, sep, 1)
    IN  IF i = 0 THEN <<s>>
        ELSE <<SubSeq(s, 1, i - 1), Drop(s, i + Len(sep) - 1)>>

\* s.replace(old, new): every non-overlapping occurrence, left to right
RECURSIVE Replace(_, _, _)
Replace(s, old, new) ==
    LET i == FindFrom(s, old, 1)
    IN  IF i = 0 THEN s
        ELSE SubSeq(s, 1, i - 1) \o new \o Replace(Drop(s, i + Len(old) - 1), old, new)

\* ------------------------------------------------- urllib.parse.parse_qs
\* the percent escapes the model decodes (two hex digits -> the character)
HexTable ==
    [h \in {<<"6", "4">>, <<"6", "F">>, <<"2", "6">>, <<"3", "D">>} |->
        CASE h = <<"6", "4">> -> "d"
          [] h = <<"6", "F">> -> "o"
          [] h = <<"2", "6">> -> "&"
          [] h = <<"3", "D">> -> "="]

\* urllib.parse.unquote: %XX becomes the character, any other % stays
RECURSIVE unquote(_)
unquote(s) ==
    IF s = <<>> THEN <<>>
    ELSE IF /\ s[1] = "%"
            /\ Len(s) >= 3
            /\ SubSeq(s, 2, 3) \in DOMAIN HexTable
         THEN <<HexTable[SubSeq(s, 2, 3)]>> \o unquote(Drop(s, 3))
         ELSE <<s[1]>> \o unquote(Tail(s))

\* parse_qsl: the (name, value) pairs of a query string, in order; a field
\* without '=' or with a blank value is dropped (keep_blank_values=False)
RECURSIVE parse_qsl_fields(_)
parse_qsl_fields(fields) ==
    IF fields = <<>> THEN <<>>
    ELSE LET name_value == Head(fields)
             nv == Split1(name_value, <<"=">>)
             rest == parse_qsl_fields(Tail(fields))
         IN  IF name_value = <<>> THEN rest
             ELSE IF Len(nv) # 2 THEN rest
             ELSE IF Len(nv[2]) = 0 THEN rest
             ELSE <<  <<unquote(Replace(nv[1], <<"+">>, <<" ">>)),
                        unquote(Replace(nv[2], <<"+">>, <<" ">>))>>  >> \o rest

parse_qsl(qs) == parse_qsl_fields(Split(qs, <<"&">>))

\* parse_qs: dict from name to the list of its values, in order of appearance
RECURSIVE parse_qs_pairs(_, _)
parse_qs_pairs(pairs, parsed_result) ==
    IF pairs = <<>> THEN parsed_result
    ELSE LET name == Head(pairs)[1]
             value == Head(pairs)[2]
         IN  parse_qs_pairs(Tail(pairs),
                 IF name \in DOMAIN parsed_result
                 THEN [parsed_result EXCEPT ![name] = Append(@, value)]
                 ELSE [k \in DOMAIN parsed_result \cup {name} |->
                          IF k = name THEN <<value>> ELSE parsed_result[k]])

EmptyDict == [k \in {} |-> <<>>]

parse_qs(qs) == parse_qs_pairs(parse_qsl(qs), EmptyDict)

\* dict.get(key, default)
Get(d, key, default) == IF key \in DOMAIN d THEN d[key] ELSE default

\* ------------------------------------------------------------ constants
\* the literal tested by do_GET and removed by handle_api_request
ApiPrefix == <<"/", "a", "p", "i", "/", "q", "u", "o", "t", "e", "/">>

\* the fixed part of the upstream URL, up to the symbol
UpstreamBase == <<"h", "t", "t", "p", "s", ":", "/", "/", "q", "u", "e", "r", "y", "1", ".", "f", "i", "n", "a", "n", "c", "e", ".", "y", "a", "h", "o", "o", ".", "c", "o", "m", "/", "v", "8", "/", "f", "i", "n", "a", "n", "c", "e", "/", "c", "h", "a", "r", "t", "/">>

\* interval_map of handle_api_request
interval_map ==
    (<<"1", "d">> :> <<"5", "m">>) @@ (<<"5", "d">> :> <<"1", "5", "m">>) @@ (<<"1", "m", "o">> :> <<"1", "d">>) @@
    (<<"3", "m", "o">> :> <<"1", "d">>) @@ (<<"6", "m", "o">> :> <<"1", "d">>) @@ (<<"1", "y">> :> <<"1", "w", "k">>)

\* a lookup whose default is the intraday interval
IntervalOf_Mutant(period) == Get(interval_map, period, <<"5", "m">>)

\* interval_map.get(period, '1d')
IntervalOf(period) == Get(interval_map, period, <<"1", "d">>)

\* the three headers end_headers adds
CORSHeaders ==
    { <<"Access-Control-Allow-Origin", "*">>,
      <<"Access-Control-Allow-Methods", "GET, POST, OPTIONS">>,
      <<"Access-Control-Allow-Headers", "Content-Type">> }

\* an end_headers that forgets the Allow-Headers line
end_headers_Mutant(headers) ==
    headers \cup { <<"Access-Control-Allow-Origin", "*">>,
                   <<"Access-Control-Allow-Methods", "GET, POST, OPTIONS">> }

\* CORSRequestHandler.end_headers: the headers sent so far plus the CORS ones
end_headers(headers) == headers \cup CORSHeaders

\* ----------------------------------------------------------- exceptions
\* the direct base class of each exception class the handler can meet
BaseClass ==
    [c \in {"HTTPError", "URLError", "TimeoutError", "ConnectionResetError",
            "BrokenPipeError", "InvalidURL", "OSError", "Exception"} |->
        CASE c = "HTTPError" -> "URLError"
          [] c = "URLError" -> "OSError"
          [] c = "TimeoutError" -> "OSError"
          [] c = "ConnectionResetError" -> "OSError"
          [] c = "BrokenPipeError" -> "OSError"
          [] c = "InvalidURL" -> "Exception"
          [] c = "OSError" -> "Exception"
          [] c = "Exception" -> "Exception"]

\* isinstance(e, target) for an exception of class cls
RECURSIVE IsInstance(_, _)
IsInstance(cls, target) ==
    IF cls = target THEN TRUE
    ELSE IF cls = "Exception" THEN FALSE
    ELSE IsInstance(BaseClass[cls], target)

\* an exception: its class, e.code (HTTPError only), and e.reason / str(e)
Exc(cls, code, text) == [cls |-> cls, code |-> code, text |-> text]

NoExc == Exc("none", 0, "")

\* ------------------------------------------------------------ responses
\* a response body: the bytes relayed, a generated page, or nothing
Body(kind, bytes) == [kind |-> kind, bytes |-> bytes]

EmptyBody == Body("empty", <<>>)

\* one response as written to the connection: status line, headers, body
Response(status, message, headers, body) ==
    [status |-> status, message |-> message, headers |-> headers, body |-> body]

\* send_error(code, message): status line with the message, an HTML error
\* page unless the status forbids a body, closed by end_headers
send_error(code, message) ==
    IF code >= 200 /\ code \notin {204, 205, 304}
    THEN Response(code, message,
             end_headers({ <<"Connection", "close">>,
                           <<"Content-Type", "text/html;charset=utf-8">> }),
             Body("error page", <<>>))
    ELSE Response(code, message, end_headers({ <<"Connection", "close">> }), EmptyBody)

\* except clauses with URLError tried before its subclass HTTPError
ExceptClause_Mutant(e) ==
    IF IsInstance(e.cls, "URLError") THEN send_error(500, <<"Connection Error: ", e.text>>)
    ELSE IF IsInstance(e.cls, "HTTPError") THEN send_error(e.code, <<"API Error: ", e.text>>)
    ELSE send_error(500, <<"Server Error: ", e.text>>)

\* the except clauses of handle_api_request, tried in source order
ExceptClause(e) ==
    IF IsInstance(e.cls, "HTTPError") THEN send_error(e.code, <<"API Error: ", e.text>>)
    ELSE IF IsInstance(e.cls, "URLError") THEN send_error(500, <<"Connection Error: ", e.text>>)
    ELSE send_error(500, <<"Server Error: ", e.text>>)

\* send_response(200); send_header('Content-Type', ...); end_headers():
\* the success status line and headers, before any body byte is written
SuccessHeaders == Response(200, <<"OK", "">>,
                      end_headers({ <<"Content-Type", "application/json">> }), EmptyBody)

\* a relay that re-serialises the payload and loses its last byte
WriteBody_Mutant(response, data) ==
    [response EXCEPT !.body = Body("bytes", SubSeq(data, 1, Len(data) - 1))]

\* self.wfile.write(data) after the success headers
WriteBody(response, data) == [response EXCEPT !.body = Body("bytes", data)]

\* do_OPTIONS: send_response(200); end_headers()
OptionsResponse == Response(200, <<"OK", "">>, end_headers({}), EmptyBody)

\* ------------------------------------------------------ request parsing
\* a lookup that takes the last value of a repeated period key
PeriodOf_Mutant(path_parts) ==
    IF Len(path_parts) > 1
    THEN LET values == Get(parse_qs(path_parts[2]), <<"p", "e", "r", "i", "o", "d">>, << <<"1", "d">> >>)
         IN  values[Len(values)]
    ELSE <<"1", "d">>

\* period = params.get('period', ['1d'])[0] if there is a query, else '1d'
PeriodOf(path_parts) ==
    IF Len(path_parts) > 1
    THEN Get(parse_qs(path_parts[2]), <<"p", "e", "r", "i", "o", "d">>, << <<"1", "d">> >>)[1]
    ELSE <<"1", "d">>

\* symbol = path_parts[0].replace('/api/quote/', '')
SymbolOf(path_parts) == Replace(path_parts[1], ApiPrefix, <<>>)

\* the f-string of the upstream URL
UrlOf(sym, intv, per) ==
    UpstreamBase \o sym \o <<"?", "i", "n", "t", "e", "r", "v", "a", "l", "=">> \o intv \o <<"&", "r", "a", "n", "g", "e", "=">> \o per

\* ---------------------------------------------------------- environment
Bytes == {0, 1}

\* upstream response bodies: every byte string of at most MaxBodyLen bytes
Bodies == UNION { [1..n -> Bytes] : n \in 0..MaxBodyLen }

\* what the network does to one proxied request:
\*   open   the exception urlopen raises, or NoExc when it returns a response
\*   status the 2xx status of that response
\*   data   its body
\*   read   the exception response.read() raises, or NoExc
\*   write  the exception wfile.write(data) raises, or NoExc
\*   late   whether bytes written after a failed write still reach the wire
Env(open, status, data, read, write, late) ==
    [open |-> open, status |-> status, data |-> data,
     read |-> read, write |-> write, late |-> late]

NoEnv == Env(NoExc, 0, <<>>, NoExc, NoExc, FALSE)

OpenFailures ==
    { Exc("HTTPError", 404, "Not Found"),
      Exc("HTTPError", 500, "Internal Server Error"),
      Exc("HTTPError", 429, "Too Many Requests"),
      Exc("HTTPError", 304, "Not Modified"),
      Exc("URLError", 0, "[Errno -2] Name or service not known"),
      Exc("URLError", 0, "[Errno 111] Connection refused"),
      Exc("URLError", 0, "timed out"),
      Exc("TimeoutError", 0, "The read operation timed out"),
      Exc("InvalidURL", 0, "URL can't contain control characters") }

ReadFailures ==
    { Exc("TimeoutError", 0, "The read operation timed out"),
      Exc("ConnectionResetError", 0, "[Errno 104] Connection reset by peer") }

WriteFailures == { Exc("BrokenPipeError", 0, "[Errno 32] Broken pipe") }

Envs ==
    { Env(e, 0, <<>>, NoExc, NoExc, FALSE) : e \in OpenFailures }
    \cup { Env(NoExc, s, d, r, NoExc, FALSE) :
             s \in {200, 204}, d \in Bodies, r \in ReadFailures }
    \cup { Env(NoExc, s, d, NoExc, NoExc, FALSE) : s \in {200, 204}, d \in Bodies }
    \cup { Env(NoExc, s, d, NoExc, w, l) :
             s \in {200, 204}, d \in Bodies, w \in WriteFailures, l \in BOOLEAN }

\* what the static-file collaborator finds for a path
StaticOutcomes == {"file", "missing", "directory"}

\* inbound paths
Symbols == { <<"A", "A", "P", "L">>, <<>>, <<"A", "/", "a", "p", "i", "/", "q", "u", "o", "t", "e", "/", "B">>, <<"^", "G", "S", "P", "C">> }

Queries ==
    { <<>>, <<"?">>,
      <<"?", "p", "e", "r", "i", "o", "d", "=", "1", "d">>, <<"?", "p", "e", "r", "i", "o", "d", "=", "5", "d">>, <<"?", "p", "e", "r", "i", "o", "d", "=", "1", "m", "o">>, <<"?", "p", "e", "r", "i", "o", "d", "=", "3", "m", "o">>,
      <<"?", "p", "e", "r", "i", "o", "d", "=", "6", "m", "o">>, <<"?", "p", "e", "r", "i", "o", "d", "=", "1", "y">>, <<"?", "p", "e", "r", "i", "o", "d", "=", "2", "y">>, <<"?", "p", "e", "r", "i", "o", "d", "=", "m", "a", "x">>,
      <<"?", "p", "e", "r", "i", "o", "d", "=">>, <<"?", "p", "e", "r", "i", "o", "d">>, <<"?", "x", "=", "1">>, <<"?", "x", "=", "1", "&", "p", "e", "r", "i", "o", "d", "=", "1", "y">>,
      <<"?", "p", "e", "r", "i", "o", "d", "=", "5", "d", "&", "p", "e", "r", "i", "o", "d", "=", "1", "y">>, <<"?", "p", "e", "r", "i", "o", "d", "=", "&", "p", "e", "r", "i", "o", "d", "=", "1", "y">>,
      <<"?", "p", "e", "r", "i", "o", "d", "=", "1", "%", "6", "4">>, <<"?", "p", "e", "r", "i", "%", "6", "F", "d", "=", "5", "d">>, <<"?", "p", "e", "r", "i", "o", "d", "=", "2", "+", "y">>,
      <<"?", "p", "e", "r", "i", "o", "d", "=", "5", "d", "?", "x", "=", "1">>, <<"?", "x", "=", "1", "?", "y", "&", "p", "e", "r", "i", "o", "d", "=", "5", "d">> }

ApiPaths == { ApiPrefix \o s \o q : s \in Symbols, q \in Queries }

StaticPaths == { <<"/">>, <<"/", "i", "n", "d", "e", "x", ".", "h", "t", "m", "l">>, <<"/", "a", "p", "i", "/", "q", "u", "o", "t", "e">>, <<"/", "a", "p", "i", "/", "q", "u", "o", "t", "e", "s", "?", "p", "e", "r", "i", "o", "d", "=", "5", "d">>,
                 <<"/", "x", "/", "a", "p", "i", "/", "q", "u", "o", "t", "e", "/", "A", "A", "P", "L">> }

Paths == ApiPaths \cup StaticPaths

\* ---------------------------------------------------------------- state
VARIABLES
    command,    \* the method of the request handled last, "NONE" before any
    path,       \* its request target (self.path)
    route,      \* which handler served it: "none", "options", "static", "api"
    symbol,     \* locals of handle_api_request
    period,
    interval,
    outbound,   \* the URLs passed to urlopen for this request, in order
    upstream,   \* what the network did to this request
    wire,       \* the responses written to the connection, in order
    propagated  \* TRUE when an exception left the handler

vars == <<command, path, route, symbol, period, interval, outbound, upstream,
          wire, propagated>>

Init ==
    /\ command = "NONE"
    /\ path = <<>>
    /\ route = "none"
    /\ symbol = <<>>
    /\ period = <<>>
    /\ interval = <<>>
    /\ outbound = <<>>
    /\ upstream = NoEnv
    /\ wire = <<>>
    /\ propagated = FALSE

\* a do_OPTIONS that lets preflights of proxy paths reach the upstream
do_OPTIONS_Mutant(p) ==
    /\ command = "NONE"
    /\ command' = "OPTIONS"
    /\ path' = p
    /\ route' = "options"
    /\ symbol' = <<>>
    /\ period' = <<>>
    /\ interval' = <<>>
    /\ outbound' = IF StartsWith(p, ApiPrefix)
                   THEN << UrlOf(SymbolOf(Split(p, <<"?">>)), <<"1", "d">>, <<"1", "d">>) >>
                   ELSE <<>>
    /\ upstream' = NoEnv
    /\ wire' = <<OptionsResponse>>
    /\ propagated' = FALSE

\* do_OPTIONS
do_OPTIONS(p) ==
    /\ command = "NONE"
    /\ command' = "OPTIONS"
    /\ path' = p
    /\ route' = "options"
    /\ symbol' = <<>>
    /\ period' = <<>>
    /\ interval' = <<>>
    /\ outbound' = <<>>
    /\ upstream' = NoEnv
    /\ wire' = <<OptionsResponse>>
    /\ propagated' = FALSE

\* super().do_GET(): the static-file server; each of its responses ends
\* with self.end_headers()
static_do_GET(p, found) ==
    /\ command = "NONE"
    /\ ~StartsWith(p, ApiPrefix)
    /\ command' = "GET"
    /\ path' = p
    /\ route' = "static"
    /\ symbol' = <<>>
    /\ period' = <<>>
    /\ interval' = <<>>
    /\ outbound' = <<>>
    /\ upstream' = NoEnv
    /\ wire' = << CASE found = "file" ->
                         Response(200, <<"OK", "">>,
                             end_headers({ <<"Content-type", "text/html">> }),
                             Body("file", <<>>))
                    [] found = "directory" ->
                         Response(301, <<"Moved Permanently", "">>,
                             end_headers({ <<"Content-Length", "0">> }), EmptyBody)
                    [] OTHER -> send_error(404, <<"File not found", "">>) >>
    /\ propagated' = FALSE

\* handle_api_request: the try block up to the first exception, then the
\* matching except clause
handle_api_request(p, env) ==
    LET path_parts == Split(p, <<"?">>)
        sym == SymbolOf(path_parts)
        per == PeriodOf(path_parts)
        intv == IntervalOf(per)
        url == UrlOf(sym, intv, per)
        \* the exception the try block ends with, NoExc if it completes
        raised == IF env.open # NoExc THEN env.open
                  ELSE IF env.read # NoExc THEN env.read
                  ELSE env.write
        \* what the try block wrote before it ended
        sent == IF env.open # NoExc \/ env.read # NoExc THEN <<>>
                ELSE IF env.write # NoExc THEN <<SuccessHeaders>>
                ELSE <<WriteBody(SuccessHeaders, env.data)>>
        \* the error response reaches the wire unless the connection is dead
        delivered == env.write = NoExc \/ env.late
    IN  /\ command = "NONE"
        /\ StartsWith(p, ApiPrefix)
        /\ command' = "GET"
        /\ path' = p
        /\ route' = "api"
        /\ symbol' = sym
        /\ period' = per
        /\ interval' = intv
        /\ outbound' = <<url>>
        /\ upstream' = env
        /\ wire' = IF raised = NoExc THEN sent
                   ELSE IF delivered THEN Append(sent, ExceptClause(raised))
                   ELSE sent
        /\ propagated' = (raised # NoExc /\ ~delivered)

\* do_GET: paths under the prefix go to the proxy, the rest to static files
do_GET(p, env, found) ==
    \/ handle_api_request(p, env)
    \/ static_do_GET(p, found)

\* serve_forever: the connection is closed after its request and the next
\* request is served by a fresh handler
finish_request ==
    /\ command # "NONE"
    /\ command' = "NONE"
    /\ path' = <<>>
    /\ route' = "none"
    /\ symbol' = <<>>
    /\ period' = <<>>
    /\ interval' = <<>>
    /\ outbound' = <<>>
    /\ upstream' = NoEnv
    /\ wire' = <<>>
    /\ propagated' = FALSE

Next ==
    \/ \E p \in Paths : do_OPTIONS(p)
    \/ \E p \in ApiPaths, env \in Envs : do_GET(p, env, "missing")
    \/ \E p \in StaticPaths, found \in StaticOutcomes : do_GET(p, NoEnv, found)
    \/ finish_request

Spec == Init /\ [][Next]_vars

\* =============================================================== claims
\* helpers of the claims: the request as its sender wrote it
Requested == route = "api"

\* the part of the path before the first '?'
InboundHead ==
    LET i == FindFrom(path, <<"?">>, 1)
    IN  IF i = 0 THEN path ELSE SubSeq(path, 1, i - 1)

\* TRUE when the path has a query component
HasQuery == FindFrom(path, <<"?">>, 1) # 0

\* the whole query component, everything after the first '?'
InboundQuery == Drop(path, FindFrom(path, <<"?">>, 1))

\* the interval table as the documentation prints it
TableInterval(per) ==
    CASE per = <<"1", "d">> -> <<"5", "m">>
      [] per = <<"5", "d">> -> <<"1", "5", "m">>
      [] per = <<"1", "m", "o">> -> <<"1", "d">>
      [] per = <<"3", "m", "o">> -> <<"1", "d">>
      [] per = <<"6", "m", "o">> -> <<"1", "d">>
      [] per = <<"1", "y">> -> <<"1", "w", "k">>
      [] OTHER -> <<"1", "d">>

\* C1: on every proxied request the interval sent upstream is the table's
\* value for the six supported periods and 1d for any other period, and the
\* request is forwarded whatever the period is.
C1_IntervalTable ==
    Requested =>
        /\ interval = TableInterval(period)
        /\ Len(outbound) = 1
        /\ FindFrom(outbound[1],
               <<"?", "i", "n", "t", "e", "r", "v", "a", "l", "=">> \o TableInterval(period) \o <<"&", "r", "a", "n", "g", "e", "=">>, 1) # 0

C1_Witness ==
    /\ Requested
    /\ period = <<"2", "y">>
    /\ interval = <<"1", "d">>
    /\ Len(outbound) = 1

C1_WitnessTable ==
    /\ Requested
    /\ period = <<"1", "y">>
    /\ interval = <<"1", "w", "k">>

\* the '&'-separated fields of a query string
FieldsOf(qs) == Split(qs, <<"&">>)

\* the text of a field before its first '=' (the whole field without one)
RawKey(field) == Split1(field, <<"=">>)[1]

\* the text of a field after its first '=' (empty without one)
RawValue(field) ==
    LET nv == Split1(field, <<"=">>)
    IN  IF Len(nv) = 2 THEN nv[2] ELSE <<>>

\* C2 as stated: without a query component, or without a period key in it,
\* the period is 1d and the interval 5m; with a period key, the value of
\* that key is the period.
C2_Original ==
    Requested =>
        LET fields == IF HasQuery THEN FieldsOf(InboundQuery) ELSE <<>>
            keyed == { i \in 1..Len(fields) : RawKey(fields[i]) = <<"p", "e", "r", "i", "o", "d">> }
        IN  IF keyed = {}
            THEN period = <<"1", "d">> /\ interval = <<"5", "m">>
            ELSE \E i \in keyed : period = RawValue(fields[i])

\* form decoding of one name or value: '+' is a space, %XX is a character
FormDecode(s) == unquote(Replace(s, <<"+">>, <<" ">>))

\* C2 amended: the handler reads the query up to a further '?', and a field
\* counts as a period key when its decoded name is period and its value is
\* not blank. Without such a field (or without a query) the period is 1d
\* and the interval 5m; otherwise the period is the decoded value of the
\* first such field.
C2_PeriodOfQuery ==
    Requested =>
        LET seen == IF HasQuery THEN Split(InboundQuery, <<"?">>)[1] ELSE <<>>
            fields == FieldsOf(seen)
            keyed == { i \in 1..Len(fields) :
                         /\ FindFrom(fields[i], <<"=">>, 1) # 0
                         /\ RawValue(fields[i]) # <<>>
                         /\ FormDecode(RawKey(fields[i])) = <<"p", "e", "r", "i", "o", "d">> }
            first == CHOOSE i \in keyed : \A j \in keyed : i <= j
        IN  IF keyed = {}
            THEN period = <<"1", "d">> /\ interval = <<"5", "m">>
            ELSE period = FormDecode(RawValue(fields[first]))

C2_Witness ==
    /\ Requested
    /\ InboundQuery = <<"p", "e", "r", "i", "o", "d", "=", "&", "p", "e", "r", "i", "o", "d", "=", "1", "y">>
    /\ period = <<"1", "y">>

C2_WitnessBlank ==
    /\ Requested
    /\ HasQuery
    /\ InboundQuery = <<"p", "e", "r", "i", "o", "d", "=">>
    /\ period = <<"1", "d">>
    /\ interval = <<"5", "m">>

\* TRUE for a value made of letters and digits only: nothing to decode,
\* nothing that ends the field
PlainValue(s) ==
    /\ s # <<>>
    /\ \A i \in 1..Len(s) : s[i] \notin {"%", "+", "&", "?", "=", " "}

\* C3 as stated: for a request /api/quote/<symbol>?period=<p> the one
\* outbound URL is the fixed base followed by <symbol>, ?interval=, the
\* interval of <p>, &range= and <p>, with <symbol> and <p> as they came in.
C3_Original ==
    (/\ Requested
     /\ HasQuery
     /\ StartsWith(InboundQuery, <<"p", "e", "r", "i", "o", "d", "=">>)
     /\ PlainValue(Drop(InboundQuery, Len(<<"p", "e", "r", "i", "o", "d", "=">>))))
    =>
        LET sym == Drop(InboundHead, Len(ApiPrefix))
            p == Drop(InboundQuery, Len(<<"p", "e", "r", "i", "o", "d", "=">>))
        IN  outbound = << UpstreamBase \o sym \o <<"?", "i", "n", "t", "e", "r", "v", "a", "l", "=">> \o TableInterval(p)
                            \o <<"&", "r", "a", "n", "g", "e", "=">> \o p >>

\* the example of C3 is served as the claim says
C3_Example ==
    (Requested /\ path = <<"/", "a", "p", "i", "/", "q", "u", "o", "t", "e", "/", "A", "A", "P", "L", "?", "p", "e", "r", "i", "o", "d", "=", "5", "d">>)
    => outbound = << <<"h", "t", "t", "p", "s", ":", "/", "/", "q", "u", "e", "r", "y", "1", ".", "f", "i", "n", "a", "n", "c", "e", ".", "y", "a", "h", "o", "o", ".", "c", "o", "m", "/", "v", "8", "/", "f", "i", "n", "a", "n", "c", "e", "/", "c", "h", "a", "r", "t", "/", "A", "A", "P", "L", "?", "i", "n", "t", "e", "r", "v", "a", "l", "=", "1", "5", "m", "&", "r", "a", "n", "g", "e", "=", "5", "d">> >>

\* the network returned a response to urlopen
UpstreamAnswered == Requested /\ upstream.open = NoExc

\* the outbound call succeeded: a response came back and its body was read
UpstreamSucceeded == UpstreamAnswered /\ upstream.read = NoExc

UpstreamHTTPError == Requested /\ upstream.open.cls = "HTTPError"

\* C5 as stated: an upstream HTTP error status is answered with that same
\* status and a message embedding the upstream's reason phrase, never with
\* 500 or 200.
C5_Original ==
    UpstreamHTTPError =>
        /\ Len(wire) = 1
        /\ wire[1].status = upstream.open.code
        /\ wire[1].message = <<"API Error: ", upstream.open.text>>
        /\ wire[1].status \notin {500, 200}

\* C5 amended: an upstream HTTP error status is answered with that same
\* status and a message embedding the upstream's reason phrase; the answer
\* is never 200, and it is 500 only when the upstream's own status is 500.
C5_ErrorStatusRelayed ==
    UpstreamHTTPError =>
        /\ Len(wire) = 1
        /\ wire[1].status = upstream.open.code
        /\ wire[1].message = <<"API Error: ", upstream.open.text>>
        /\ wire[1].status # 200
        /\ (wire[1].status = 500 => upstream.open.code = 500)

C5_Witness ==
    /\ UpstreamHTTPError
    /\ upstream.open.code = 404
    /\ Len(wire) = 1
    /\ wire[1].status = 404
    /\ wire[1].message = <<"API Error: ", "Not Found">>

\* a network-level failure of the outbound call, while connecting (urlopen
\* raises URLError or a socket error) or while reading the response
NetworkFailure ==
    /\ Requested
    /\ \/ upstream.open.cls \in {"URLError", "TimeoutError"}
       \/ UpstreamAnswered /\ upstream.read # NoExc

\* the socket-level exception of a network failure
NetworkError == IF upstream.open # NoExc THEN upstream.open ELSE upstream.read

\* C6 as stated: every network-level failure of the outbound call, while
\* connecting or while reading the response, is answered with status 500
\* and a message that names the connection failure and embeds the error.
C6_Original ==
    NetworkFailure =>
        /\ Len(wire) = 1
        /\ wire[1].status = 500
        /\ wire[1].message = <<"Connection Error: ", NetworkError.text>>

\* the part of C6 the handler does keep: every network failure is a 500
\* whose message embeds the error text
C6_Status500 ==
    NetworkFailure =>
        /\ Len(wire) = 1
        /\ wire[1].status = 500
        /\ wire[1].message[2] = NetworkError.text

\* C7: every response written, on every path (proxy success, each proxy
\* error, OPTIONS, static GET), carries the three CORS headers.
C7_CORSOnEveryResponse ==
    \A i \in 1..Len(wire) :
        /\ <<"Access-Control-Allow-Origin", "*">> \in wire[i].headers
        /\ <<"Access-Control-Allow-Methods", "GET, POST, OPTIONS">> \in wire[i].headers
        /\ <<"Access-Control-Allow-Headers", "Content-Type">> \in wire[i].headers

C7_Witness ==
    /\ Requested
    /\ upstream.open.cls = "URLError"
    /\ Len(wire) = 1
    /\ wire[1].status = 500
    /\ <<"Access-Control-Allow-Origin", "*">> \in wire[1].headers

\* C8: an OPTIONS request to any path, also one under /api/quote/, is
\* answered with status 200 and an empty body, and no outbound request is
\* made for it.
C8_OptionsNoProxy ==
    command = "OPTIONS" =>
        /\ Len(wire) = 1
        /\ wire[1].status = 200
        /\ wire[1].body = EmptyBody
        /\ outbound = <<>>

C8_Witness ==
    /\ command = "OPTIONS"
    /\ path = <<"/", "a", "p", "i", "/", "q", "u", "o", "t", "e", "/", "A", "A", "P", "L", "?", "p", "e", "r", "i", "o", "d", "=", "5", "d">>
    /\ Len(wire) = 1
    /\ wire[1].status = 200

\* C9 as stated: a proxied request makes at most one outbound call and the
\* caller gets exactly one response (one status line), also when a failure
\* happens after the success headers have been sent.
C9_Original ==
    Requested =>
        /\ Len(outbound) <= 1
        /\ Len(wire) = 1

\* the part of C9 the handler does keep: one outbound call, no retry
C9_OneOutboundCall == Requested => Len(outbound) = 1

\* C10 as stated: the symbol is the part of the path before the first '?'
\* with only the leading /api/quote/ removed, the rest unaltered, also when
\* it is empty or contains /api/quote/ again.
C10_Original ==
    Requested => symbol = Drop(InboundHead, Len(ApiPrefix))

\* the part of C10 the handler does keep: a remainder without a further
\* /api/quote/ is passed through as it is, the empty one included
C10_PlainSymbol ==
    (Requested /\ FindFrom(Drop(InboundHead, Len(ApiPrefix)), ApiPrefix, 1) = 0)
    => symbol = Drop(InboundHead, Len(ApiPrefix))
====
